---- MODULE Spec2Model ----
(***************************************************************************)
(* Model of packagemeta.py: the receiver registry filled by the deferred   *)
(* _register_receivers scan, broadcast with its one thread per call, and   *)
(* the _requires dependency table with the requires decorator, the         *)
(* set-requires command and the missing-package query.                     *)
(***************************************************************************)
EXTENDS Integers, Sequences, FiniteSets, TLC

\* ------------------------------------------------------------------ bounds
MaxTypes == 2        \* Receiver subclasses defined in the process
MaxBroadcasts == 1   \* threads started by broadcast while the scan may still run
MaxDispatches == 2   \* threads started by broadcast once the scan is over
MaxWrapped == 1      \* functions decorated with requires
MaxPkgArgs == 2      \* length of one *pkgs / pkgs argument list

Range(s) == {s[i] : i \in DOMAIN s}

\* ------------------------------------------------------------ input values
\* A Python value used as a channel: a string, None, or a non-string (42).
StrChannel(s) == [kind |-> "str", v |-> s]
NoChannel == [kind |-> "none", v |-> "None"]
IntChannel == [kind |-> "int", v |-> "42"]
ChannelNames == {"ping", "pong"}
StrChannels == {StrChannel(s) : s \in ChannelNames}
ClassChannels == StrChannels \cup {NoChannel}
BroadcastArgs == StrChannels \cup {IntChannel}
\* broadcast never looks into data, so the calls are told apart by giving the
\* k-th accepted call the k-th payload
Payloads == <<"hello", "bye">>
Modules == {"M", "N"}
Pkgs == {"Foo", "Bar"}

VARIABLES
    subclasses,   \* Receiver.__subclasses__(): channel attribute of each subclass, in definition order
    scanPc,       \* position of the set_timeout(_register_receivers, 3000) callback
    subs,         \* local subs of _register_receivers
    scanIdx,      \* position of `for sub in subs`
    warned,       \* subclasses log.warn was called for
    receivers,    \* _receivers: dict channel -> list of receiver instances
    threads,      \* the threading.Thread started by each broadcast call
    delivered,    \* receive(data) invocations, in the order they started
    requiresTab,  \* _requires: dict module -> set of package names
    wrapped,      \* the _require closures returned by requires(*pkgs)(fn): pkgs and pkg as captured
    installed,    \* directories under sublime.packages_path()
    lastCall      \* the last call made by user code, with its outcome

vars == <<subclasses, scanPc, subs, scanIdx, warned, receivers, threads,
          delivered, requiresTab, wrapped, installed, lastCall>>

regVars == <<subclasses, scanPc, subs, scanIdx, warned, receivers>>
depVars == <<requiresTab, wrapped, installed>>

\* ------------------------------------------------------------ dict helpers
\* dict.get(k, default)
Get(d, k, default) == IF k \in DOMAIN d THEN d[k] ELSE default

\* faulty variant: d = {k: v}, the other keys are lost
PutAlone(d, k, v) == [x \in {k} |-> v]

\* d[k] = v
Put(d, k, v) == [x \in (DOMAIN d) \cup {k} |-> IF x = k THEN v ELSE d[x]]

EmptyDict == [x \in {} |-> {}]

\* ------------------------------------------------------------------- Init
Init ==
    /\ subclasses = <<>>
    /\ scanPc = "pending"
    /\ subs = <<>>
    /\ scanIdx = 0
    /\ warned = {}
    /\ receivers = EmptyDict
    /\ threads = <<>>
    /\ delivered = <<>>
    /\ requiresTab = EmptyDict
    /\ wrapped = <<>>
    /\ installed \in SUBSET Pkgs
    /\ lastCall = [op |-> "none"]

\* ------------------------------------------------------- receiver registry
\* faulty variant: once the scan is over, a new subclass is registered as it is defined
DefineReceiverRegistered(ch) ==
    /\ Len(subclasses) < MaxTypes
    /\ scanPc # "running"
    /\ subclasses' = Append(subclasses, ch)
    /\ receivers' = IF scanPc = "done" /\ ch # NoChannel
                    THEN Put(receivers, ch,
                             Get(receivers, ch, <<>>) \o <<Len(subclasses) + 1>>)
                    ELSE receivers
    /\ UNCHANGED <<scanPc, subs, scanIdx, warned, threads, delivered,
                   requiresTab, wrapped, installed, lastCall>>

\* class X(packagemeta.Receiver): channel = ch
\* (module code and timer callbacks both run on the host's main thread, so no class
\* statement runs while _register_receivers is running)
DefineReceiver(ch) ==
    /\ Len(subclasses) < MaxTypes
    /\ scanPc # "running"
    /\ subclasses' = Append(subclasses, ch)
    /\ UNCHANGED <<scanPc, subs, scanIdx, warned, receivers, threads, delivered,
                   requiresTab, wrapped, installed, lastCall>>

\* the timer fires: subs = Receiver.__subclasses__()
ScanStart ==
    /\ scanPc = "pending"
    /\ scanPc' = "running"
    /\ subs' = subclasses
    /\ scanIdx' = 1
    /\ UNCHANGED <<subclasses, warned, receivers, threads, delivered,
                   requiresTab, wrapped, installed, lastCall>>

\* faulty variant: the new instance is put in front: [sub()] + _receivers.get(sub.channel, [])
RegisterFront(regs, ch, inst) == Put(regs, ch, <<inst>> \o Get(regs, ch, <<>>))

\* _receivers[sub.channel] = _receivers.get(sub.channel, []) + [sub()]
Register(regs, ch, inst) == Put(regs, ch, Get(regs, ch, <<>>) \o <<inst>>)

\* faulty variant: `break` in place of `continue`: the scan stops at a subclass without channel
ScanStepBreak ==
    /\ scanPc = "running"
    /\ scanIdx <= Len(subs)
    /\ IF subs[scanIdx] = NoChannel
       THEN /\ warned' = warned \cup {scanIdx}
            /\ scanIdx' = Len(subs) + 1
            /\ UNCHANGED receivers
       ELSE /\ receivers' = Register(receivers, subs[scanIdx], scanIdx)
            /\ scanIdx' = scanIdx + 1
            /\ UNCHANGED warned
    /\ UNCHANGED <<subclasses, scanPc, subs, threads, delivered,
                   requiresTab, wrapped, installed, lastCall>>

\* faulty variant: broadcasts are queued: a receiver, as it is registered, gets the
\* payload of a batch that ended on its channel before
ScanStepReplay ==
    /\ scanPc = "running"
    /\ scanIdx <= Len(subs)
    /\ IF subs[scanIdx] = NoChannel
       THEN /\ warned' = warned \cup {scanIdx}
            /\ UNCHANGED <<receivers, delivered>>
       ELSE /\ receivers' = Register(receivers, subs[scanIdx], scanIdx)
            /\ LET early == {t \in DOMAIN threads : /\ threads[t].channel = subs[scanIdx]
                                                     /\ threads[t].pc = "done"}
               IN  delivered' =
                       IF early = {} THEN delivered
                       ELSE LET t == CHOOSE u \in early : TRUE
                            IN  Append(delivered, [thread |-> t, receiver |-> scanIdx,
                                                   data |-> threads[t].data])
            /\ UNCHANGED warned
    /\ scanIdx' = scanIdx + 1
    /\ UNCHANGED <<subclasses, scanPc, subs, threads, requiresTab, wrapped, installed, lastCall>>

\* one iteration of `for sub in subs`
ScanStep ==
    /\ scanPc = "running"
    /\ scanIdx <= Len(subs)
    /\ IF subs[scanIdx] = NoChannel
       THEN /\ warned' = warned \cup {scanIdx}
            /\ UNCHANGED receivers
       ELSE /\ receivers' = Register(receivers, subs[scanIdx], scanIdx)
            /\ UNCHANGED warned
    /\ scanIdx' = scanIdx + 1
    /\ UNCHANGED <<subclasses, scanPc, subs, threads, delivered,
                   requiresTab, wrapped, installed, lastCall>>

\* the loop is exhausted and _register_receivers returns
ScanFinish ==
    /\ scanPc = "running"
    /\ scanIdx > Len(subs)
    /\ scanPc' = "done"
    /\ UNCHANGED <<subclasses, subs, scanIdx, warned, receivers, threads, delivered,
                   requiresTab, wrapped, installed, lastCall>>

\* ---------------------------------------------------------------- broadcast
\* faulty variant: the type check lets every value through
IsAnything(ch) == ch.kind \in {"str", "int", "none"}

\* isinstance(channel, (str, unicode))
IsString(ch) == ch.kind = "str"

\* faulty variant: Thread(target=_broadcast).run(): the batch runs in the caller, which gets
\* control back only when the last receiver has returned
BroadcastRun(ch, d) ==
    IF ~IsString(ch)
    THEN /\ lastCall' = [op |-> "broadcast", channel |-> ch, outcome |-> "raised"]
         /\ UNCHANGED <<regVars, threads, delivered, depVars>>
    ELSE /\ threads' = Append(threads, [channel |-> ch, data |-> d, pc |-> "done",
                                        list |-> <<>>, idx |-> 0])
         /\ delivered' = delivered \o
                [i \in DOMAIN Get(receivers, ch, <<>>) |->
                    [thread |-> Len(threads) + 1, receiver |-> Get(receivers, ch, <<>>)[i],
                     data |-> d]]
         /\ lastCall' = [op |-> "broadcast", channel |-> ch, outcome |-> "returned"]
         /\ UNCHANGED <<regVars, depVars>>

NextPayload == Payloads[(Len(threads) % Len(Payloads)) + 1]

\* broadcast(channel, data), as seen by its caller
Broadcast(ch, d) ==
    IF ~IsString(ch)
    THEN /\ lastCall' = [op |-> "broadcast", channel |-> ch, outcome |-> "raised"]
         /\ UNCHANGED <<regVars, threads, delivered, depVars>>
    ELSE /\ threads' = Append(threads, [channel |-> ch, data |-> d, pc |-> "start",
                                        list |-> <<>>, idx |-> 0])
         /\ lastCall' = [op |-> "broadcast", channel |-> ch, outcome |-> "returned"]
         /\ UNCHANGED <<regVars, delivered, depVars>>

\* _receivers.get(channel, []): the receivers registered on ch, in registration order
Lookup(ch) == Get(receivers, ch, <<>>)

\* faulty variant: _receivers[channel] in place of _receivers.get(channel, []): KeyError
ThreadLookupKeyError(t) ==
    /\ threads[t].pc = "start"
    /\ threads' = IF threads[t].channel \in DOMAIN receivers
                  THEN [threads EXCEPT ![t].pc = "iter",
                                       ![t].list = receivers[threads[t].channel],
                                       ![t].idx = 0]
                  ELSE [threads EXCEPT ![t].pc = "failed"]
    /\ UNCHANGED <<regVars, delivered, depVars, lastCall>>

\* faulty variant: _receivers.setdefault(channel, []): the lookup creates the key
ThreadLookupSetDefault(t) ==
    /\ threads[t].pc = "start"
    /\ threads' = [threads EXCEPT ![t].pc = "iter",
                                  ![t].list = Lookup(threads[t].channel),
                                  ![t].idx = 0]
    /\ receivers' = IF threads[t].channel \in DOMAIN receivers THEN receivers
                    ELSE Put(receivers, threads[t].channel, <<>>)
    /\ UNCHANGED <<subclasses, scanPc, subs, scanIdx, warned, delivered, depVars, lastCall>>

\* faulty variant: the batches are queued, a batch starts when the earlier ones are over
ThreadLookupQueued(t) ==
    /\ threads[t].pc = "start"
    /\ \A u \in 1..(t - 1) : threads[u].pc \in {"done", "failed"}
    /\ threads' = [threads EXCEPT ![t].pc = "iter",
                                  ![t].list = Lookup(threads[t].channel),
                                  ![t].idx = 0]
    /\ UNCHANGED <<regVars, delivered, depVars, lastCall>>

\* _broadcast: the thread evaluates _receivers.get(channel, []) and takes its iterator
ThreadLookup(t) ==
    /\ threads[t].pc = "start"
    /\ threads' = [threads EXCEPT ![t].pc = "iter",
                                  ![t].list = Lookup(threads[t].channel),
                                  ![t].idx = 0]
    /\ UNCHANGED <<regVars, delivered, depVars, lastCall>>

\* receiver.receive(data) is called: the invocation is logged as it starts
LogReceive(log, t, r, d) == Append(log, [thread |-> t, receiver |-> r, data |-> d])

\* faulty variant: the loop stops one short of the end of the list
LoopTurnShort(t, i) ==
    IF i < Len(threads[t].list)
    THEN /\ threads' = [threads EXCEPT ![t].pc = "receive", ![t].idx = i]
         /\ delivered' = LogReceive(delivered, t, threads[t].list[i], threads[t].data)
    ELSE /\ threads' = [threads EXCEPT ![t].pc = "done", ![t].list = <<>>, ![t].idx = 0]
         /\ UNCHANGED delivered

\* faulty variant: the loop reads the channel's list in _receivers again at every turn
LoopTurnLive(t, i) ==
    IF i <= Len(Lookup(threads[t].channel))
    THEN /\ threads' = [threads EXCEPT ![t].pc = "receive", ![t].idx = i]
         /\ delivered' = LogReceive(delivered, t, Lookup(threads[t].channel)[i],
                                    threads[t].data)
    ELSE /\ threads' = [threads EXCEPT ![t].pc = "done", ![t].list = <<>>, ![t].idx = 0]
         /\ UNCHANGED delivered

\* one turn of `for receiver in ...` for a thread whose next list position is i:
\* the receiver at i is called, or the list is exhausted and the thread ends
LoopTurn(t, i) ==
    IF i <= Len(threads[t].list)
    THEN /\ threads' = [threads EXCEPT ![t].pc = "receive", ![t].idx = i]
         /\ delivered' = LogReceive(delivered, t, threads[t].list[i], threads[t].data)
    ELSE /\ threads' = [threads EXCEPT ![t].pc = "done", ![t].list = <<>>, ![t].idx = 0]
         /\ UNCHANGED delivered

\* _broadcast: the first turn of the loop, after the lookup
ThreadFirst(t) ==
    /\ threads[t].pc = "iter"
    /\ LoopTurn(t, 1)
    /\ UNCHANGED <<regVars, depVars, lastCall>>

\* receiver.receive(data) returns and the loop takes its next turn
ReceiveReturn(t) ==
    /\ threads[t].pc = "receive"
    /\ LoopTurn(t, threads[t].idx + 1)
    /\ UNCHANGED <<regVars, depVars, lastCall>>

\* faulty variant: the exception of one thread takes every running batch down with it
ReceiveRaiseAll(t) ==
    /\ threads[t].pc = "receive"
    /\ threads' = [u \in DOMAIN threads |->
                       IF threads[u].pc = "done" THEN threads[u]
                       ELSE [threads[u] EXCEPT !.pc = "failed", !.list = <<>>, !.idx = 0]]
    /\ UNCHANGED <<regVars, delivered, depVars, lastCall>>

\* receiver.receive(data) raises: nothing in _broadcast catches it, the thread dies
ReceiveRaise(t) ==
    /\ threads[t].pc = "receive"
    /\ threads' = [threads EXCEPT ![t].pc = "failed", ![t].list = <<>>, ![t].idx = 0]
    /\ UNCHANGED <<regVars, delivered, depVars, lastCall>>

NextBroadcast ==
    \/ \E ch \in ClassChannels : DefineReceiver(ch)
    \/ ScanStart
    \/ ScanStep
    \/ ScanFinish
    \/ Len(threads) < MaxBroadcasts /\ \E ch \in BroadcastArgs : Broadcast(ch, NextPayload)
    \/ \E t \in DOMAIN threads : ThreadLookup(t)
    \/ \E t \in DOMAIN threads : ThreadFirst(t)
    \/ \E t \in DOMAIN threads : ReceiveReturn(t)
    \/ \E t \in DOMAIN threads : ReceiveRaise(t)

InitBroadcast == Init /\ installed = {}

SpecBroadcast == InitBroadcast /\ [][NextBroadcast]_vars

\* --------------------------------------------- dispatch after the scan is over
\* what _register_receivers leaves in _receivers after scanning classes
RECURSIVE Scanned(_, _, _)
Scanned(regs, classes, i) ==
    IF i > Len(classes) THEN regs
    ELSE Scanned(IF classes[i] = NoChannel THEN regs ELSE Register(regs, classes[i], i),
                 classes, i + 1)

ClassLists == UNION {[1..n -> ClassChannels] : n \in 0..MaxTypes}

\* the process once the timer callback has returned, every subclass having been
\* defined before it ran
InitDispatch ==
    /\ subclasses \in ClassLists
    /\ subs = subclasses
    /\ scanIdx = Len(subs) + 1
    /\ receivers = Scanned(EmptyDict, subs, 1)
    /\ warned = {i \in DOMAIN subs : subs[i] = NoChannel}
    /\ scanPc = "done"
    /\ threads = <<>>
    /\ delivered = <<>>
    /\ requiresTab = EmptyDict
    /\ wrapped = <<>>
    /\ installed = {}
    /\ lastCall = [op |-> "none"]

NextDispatch ==
    \/ Len(threads) < MaxDispatches /\ \E ch \in StrChannels : Broadcast(ch, NextPayload)
    \/ \E t \in DOMAIN threads : ThreadLookup(t)
    \/ \E t \in DOMAIN threads : ThreadFirst(t)
    \/ \E t \in DOMAIN threads : ReceiveReturn(t)
    \/ \E t \in DOMAIN threads : ReceiveRaise(t)

\* the steps of _broadcast that need only the thread to be scheduled and the
\* receiver to return
ThreadStep(t) ==
    /\ t \in DOMAIN threads
    /\ \/ ThreadLookup(t)
       \/ ThreadFirst(t)
       \/ ReceiveReturn(t)

SpecDispatch ==
    /\ InitDispatch
    /\ [][NextDispatch]_vars
    /\ \A t \in 1..MaxDispatches : WF_vars(ThreadStep(t))

\* ---------------------------------------------------------- dependency table
\* for pkg in pkgs: s.add(pkg)
RECURSIVE AddAll(_, _)
AddAll(s, pkgs) == IF pkgs = <<>> THEN s ELSE AddAll(s \cup {Head(pkgs)}, Tail(pkgs))

\* faulty variant: _requires[module] = set(pkgs): the names declared before are dropped
DeclareOverwrite(tab, module, pkgs) == Put(tab, module, AddAll({}, pkgs))

\* s = _requires.get(module, set()); for pkg in pkgs: s.add(pkg); _requires[module] = s
Declare(tab, module, pkgs) == Put(tab, module, AddAll(Get(tab, module, {}), pkgs))

\* os.path.exists(os.path.join(sublime.packages_path(), pkg))
PathExists(pkg) == pkg \in installed

\* exists(*pkgs)
RECURSIVE Exists(_)
Exists(pkgs) ==
    IF pkgs = <<>> THEN TRUE
    ELSE IF ~PathExists(Head(pkgs)) THEN FALSE
    ELSE Exists(Tail(pkgs))

PkgListsOfLen(n) == [1..n -> Pkgs]
PkgLists == UNION {PkgListsOfLen(n) : n \in 1..MaxPkgArgs}
PkgListsOrEmpty == PkgLists \cup {<<>>}

\* the value of _decor's loop variable pkg once `for pkg in pkgs` has ended
LoopVar(pkgs) == pkgs[Len(pkgs)]

\* faulty variant: the decorator declares nothing, the names wait for the first call
RequiresLazy(module, pkgs) ==
    /\ Len(wrapped) < MaxWrapped
    /\ wrapped' = Append(wrapped, [pkgs |-> pkgs, pkg |-> LoopVar(pkgs)])
    /\ lastCall' = [op |-> "requires", module |-> module, fn |-> Len(wrapped) + 1]
    /\ UNCHANGED <<regVars, threads, delivered, requiresTab, installed>>

\* requires(*pkgs)(fn) with fn.__module__ = module: declares and returns _require
Requires(module, pkgs) ==
    /\ Len(wrapped) < MaxWrapped
    /\ requiresTab' = Declare(requiresTab, module, pkgs)
    /\ wrapped' = Append(wrapped, [pkgs |-> pkgs, pkg |-> LoopVar(pkgs)])
    /\ lastCall' = [op |-> "requires", module |-> module, fn |-> Len(wrapped) + 1]
    /\ UNCHANGED <<regVars, threads, delivered, installed>>

\* faulty variant: if exists(*pkgs): every declared name is checked
GateAll(w) == Exists(w.pkgs)

\* if exists(pkg): return fn(*args, **kwargs)
Gate(w) == Exists(<<w.pkg>>)

\* _require(*args, **kwargs), the wrapped function, is called
RequireCall(i) ==
    /\ lastCall' = [op |-> "call", fn |-> i, listed |-> installed,
                    ran |-> Gate(wrapped[i]),
                    result |-> IF Gate(wrapped[i]) THEN "fn result" ELSE "None"]
    /\ UNCHANGED <<regVars, threads, delivered, depVars>>

\* PackageMetaSetRequiresCommand.run(module, pkgs)
SetRequiresRun(module, pkgs) ==
    /\ requiresTab' = Declare(requiresTab, module, pkgs)
    /\ lastCall' = [op |-> "set_requires", module |-> module, pkgs |-> pkgs]
    /\ UNCHANGED <<regVars, threads, delivered, wrapped, installed>>

\* the orders in which iterating a Python set may yield its elements
Orderings(S) == {o \in [1..Cardinality(S) -> S] : Range(o) = S}

\* get_pkgs as iterated by the caller: _requires.get(module, []) in some order
GetPkgs(module) == IF module \in DOMAIN requiresTab THEN Orderings(requiresTab[module]) ELSE {<<>>}

\* faulty variant: `if pkg in installed`
IsListed(pkg) == pkg \in installed

NotListed(pkg) == pkg \notin installed

\* [pkg for pkg in self.get_pkgs() if pkg not in installed]
MissingOf(pkgs) == SelectSeq(pkgs, NotListed)

\* get_missing_pkgs() of an install-requires command whose get_module() is module
GetMissingPkgs(module) ==
    /\ \E pkgs \in GetPkgs(module) :
          lastCall' = [op |-> "missing", module |-> module, listed |-> installed,
                       result |-> MissingOf(pkgs)]
    /\ UNCHANGED <<regVars, threads, delivered, depVars>>

\* a package directory appears in or disappears from sublime.packages_path()
DiskChange(pkg) ==
    /\ installed' = IF pkg \in installed THEN installed \ {pkg} ELSE installed \cup {pkg}
    /\ UNCHANGED <<regVars, threads, delivered, requiresTab, wrapped, lastCall>>

NextRequires ==
    \/ \E m \in Modules, ps \in PkgLists : Requires(m, ps)
    \/ \E i \in DOMAIN wrapped : RequireCall(i)
    \/ \E m \in Modules, ps \in PkgListsOrEmpty : SetRequiresRun(m, ps)
    \/ \E m \in Modules : GetMissingPkgs(m)
    \/ \E p \in Pkgs : DiskChange(p)

SpecRequires == Init /\ [][NextRequires]_vars

\* ------------------------------------------------ install-requires command
AllPackages == "All Packages"

\* if len(self.options) > 1: self.options.insert(0, "All Packages")
WithAll(missing) == IF Len(missing) > 1 THEN <<AllPackages>> \o missing ELSE missing

\* PackageMetaInstallRequiresCommand.run(module): self.options is set and the quick
\* panel is shown, unless the module has declared nothing or misses nothing
\* (iterating the same set again yields the same order)
InstallRun(module) ==
    /\ \E pkgs \in GetPkgs(module) :
          lastCall' = [op |-> "install_run", module |-> module, listed |-> installed,
                       options |-> IF pkgs = <<>> THEN <<>> ELSE WithAll(MissingOf(pkgs)),
                       panel |-> pkgs # <<>> /\ MissingOf(pkgs) # <<>>]
    /\ UNCHANGED <<regVars, threads, delivered, depVars>>

\* the quick panel of the last run is open (it keeps the input focus until the user
\* picks an entry or dismisses it)
PanelOpen == lastCall.op = "install_run" /\ lastCall.panel

\* what the panel may hand to on_done: -1 when dismissed, else the index of an entry
Picks(options) == {-1} \cup (0..(Len(options) - 1))

\* install_pkg(name): an installer thread is started for name
InstallPkg(started, name) == Append(started, name)

\* for name in names: self.install_pkg(name)
RECURSIVE InstallEach(_, _)
InstallEach(started, names) ==
    IF names = <<>> THEN started
    ELSE InstallEach(InstallPkg(started, Head(names)), Tail(names))

\* faulty variant: any pick installs every package of the panel
StartedAll(options, picked) ==
    IF picked = -1 THEN <<>>
    ELSE IF options[1] = AllPackages THEN InstallEach(<<>>, Tail(options))
    ELSE InstallEach(<<>>, options)

\* the installer threads on_done(picked) starts, options being self.options
Started(options, picked) ==
    IF picked = -1 THEN <<>>
    ELSE IF options[picked + 1] = AllPackages THEN InstallEach(<<>>, Tail(options))
    ELSE InstallPkg(<<>>, options[picked + 1])

\* on_done(picked), called by the quick panel
OnDone(picked) ==
    /\ PanelOpen
    /\ lastCall' = [op |-> "on_done", options |-> lastCall.options, picked |-> picked,
                    started |-> Started(lastCall.options, picked)]
    /\ UNCHANGED <<regVars, threads, delivered, depVars>>

\* ------------------------------------------------------- the whole process
\* the process once the timer callback has returned, one subclass, of channel "ping",
\* having been defined before it ran
InitAll ==
    /\ subclasses = <<StrChannel("ping")>>
    /\ subs = subclasses
    /\ scanIdx = Len(subs) + 1
    /\ receivers = Scanned(EmptyDict, subs, 1)
    /\ warned = {i \in DOMAIN subs : subs[i] = NoChannel}
    /\ scanPc = "done"
    /\ threads = <<>>
    /\ delivered = <<>>
    /\ requiresTab = EmptyDict
    /\ wrapped = <<>>
    /\ installed \in SUBSET Pkgs
    /\ lastCall = [op |-> "none"]

\* every operation, each declaration giving one name
NextAll ==
    \/ Len(threads) < MaxBroadcasts /\ \E ch \in BroadcastArgs : Broadcast(ch, NextPayload)
    \/ \E t \in DOMAIN threads : ThreadLookup(t)
    \/ \E t \in DOMAIN threads : ThreadFirst(t)
    \/ \E t \in DOMAIN threads : ReceiveReturn(t)
    \/ \E t \in DOMAIN threads : ReceiveRaise(t)
    \/ \E m \in Modules, ps \in PkgListsOfLen(1) : Requires(m, ps)
    \/ \E i \in DOMAIN wrapped : RequireCall(i)
    \/ \E m \in Modules, ps \in PkgListsOfLen(1) : SetRequiresRun(m, ps)
    \/ \E m \in Modules : GetMissingPkgs(m)
    \/ \E m \in Modules : InstallRun(m)
    \/ PanelOpen /\ \E picked \in Picks(lastCall.options) : OnDone(picked)

SpecAll == InitAll /\ [][NextAll]_vars

\* ================================================================== claims
\* the receive invocations started by thread t, in order
ByThread(t) == LET Mine(e) == e.thread = t IN SelectSeq(delivered, Mine)

\* the receivers of a sequence of invocations
ReceiversOf(log) == [i \in DOMAIN log |-> log[i].receiver]

IsPrefix(a, b) == Len(a) <= Len(b) /\ SubSeq(b, 1, Len(a)) = a

\* C1: within one batch the receivers of the channel are invoked one after the other
\* in registration order: whenever the batch has invoked a receiver, it has invoked
\* before it, in order and once each, exactly the receivers registered before it on
\* the channel, and every invocation carries the payload of the broadcast.
C1_RegistrationOrder ==
    \A t \in DOMAIN threads :
        /\ IsPrefix(ReceiversOf(ByThread(t)), Lookup(threads[t].channel))
        /\ \A i \in DOMAIN ByThread(t) : ByThread(t)[i].data = threads[t].data
        /\ \A i, j \in DOMAIN Lookup(threads[t].channel) :
              i < j => Lookup(threads[t].channel)[i] < Lookup(threads[t].channel)[j]

\* a batch on a channel with two receivers has invoked both
C1_Witness ==
    \E t \in DOMAIN threads :
        /\ Len(Lookup(threads[t].channel)) = 2
        /\ ReceiversOf(ByThread(t)) = Lookup(threads[t].channel)
        /\ threads[t].pc = "done"

\* the invocations of receiver r made by thread t with payload d
Invocations(t, r, d) ==
    {i \in DOMAIN delivered : delivered[i] = [thread |-> t, receiver |-> r, data |-> d]}

Ended(t) == t \in DOMAIN threads /\ threads[t].pc \in {"done", "failed"}

\* what a completed batch has done: each receiver of its channel once, nothing else
ExactlyOnce(t) ==
    /\ \A r \in Range(Lookup(threads[t].channel)) :
          Cardinality(Invocations(t, r, threads[t].data)) = 1
    /\ \A i \in DOMAIN delivered :
          delivered[i].thread = t =>
              /\ delivered[i].receiver \in Range(Lookup(threads[t].channel))
              /\ subclasses[delivered[i].receiver] = threads[t].channel
              /\ delivered[i].data = threads[t].data

\* C2: with the receivers registered before the call (the scan is over), a batch whose
\* thread is scheduled fairly ends, by completing or by a receiver failing; and once it
\* has completed, each receiver registered on its channel was invoked with the payload
\* exactly once and no receiver of another channel was invoked by it.
C2_CompletesExactlyOnce ==
    /\ [](\A t \in DOMAIN threads : threads[t].pc = "done" => ExactlyOnce(t))
    /\ \A t \in 1..MaxDispatches : (t \in DOMAIN threads) ~> Ended(t)

\* one Echo receiver on "ping", broadcast("ping", "hello"): the log is ["hello"]
C2_Witness ==
    /\ subs = <<StrChannel("ping")>>
    /\ Len(threads) = 1
    /\ threads[1].channel = StrChannel("ping")
    /\ threads[1].pc = "done"
    /\ delivered = <<[thread |-> 1, receiver |-> 1, data |-> "hello"]>>

\* C3: broadcast with a non-string channel raises in the caller; the call starts no
\* thread, invokes no receiver and leaves _receivers and _requires as they were, and
\* no thread ever runs for a non-string channel.
C3_InvalidChannelRaises ==
    /\ [](\A t \in DOMAIN threads : IsString(threads[t].channel))
    /\ [][Broadcast(IntChannel, NextPayload) =>
            /\ lastCall' = [op |-> "broadcast", channel |-> IntChannel, outcome |-> "raised"]
            /\ threads' = threads
            /\ delivered' = delivered
            /\ receivers' = receivers
            /\ requiresTab' = requiresTab]_vars

\* broadcast(42, ...) has just raised while receivers are registered
C3_Witness ==
    /\ lastCall = [op |-> "broadcast", channel |-> IntChannel, outcome |-> "raised"]
    /\ DOMAIN receivers # {}
    /\ threads = <<>>

\* C4: a broadcast on a string channel that has no registered receiver returns to its
\* caller, its thread invokes no receiver and does not fail, and, scheduled fairly, the
\* thread ends.
C4_NoReceivers ==
    /\ [](\A t \in DOMAIN threads :
            Lookup(threads[t].channel) = <<>> =>
                /\ ByThread(t) = <<>>
                /\ threads[t].pc # "failed")
    /\ [][\A ch \in StrChannels :
            (Lookup(ch) = <<>> /\ Broadcast(ch, NextPayload)) =>
                lastCall' = [op |-> "broadcast", channel |-> ch, outcome |-> "returned"]]_vars
    /\ \A t \in 1..MaxDispatches :
          (t \in DOMAIN threads /\ Lookup(threads[t].channel) = <<>>)
              ~> (t \in DOMAIN threads /\ threads[t].pc = "done")

\* a batch on a channel absent from _receivers has ended while another channel has a
\* receiver, and nothing was invoked
C4_Witness ==
    /\ DOMAIN receivers # {}
    /\ \E t \in DOMAIN threads :
          /\ threads[t].channel \notin DOMAIN receivers
          /\ threads[t].pc = "done"
    /\ delivered = <<>>

\* C5: broadcast returns to its caller in the step that starts the thread, before any
\* receiver of the batch is invoked, and whether it can be called never depends on
\* what the threads of earlier broadcasts are doing.
C5_NeverBlocks ==
    /\ [](\A ch \in StrChannels : ENABLED Broadcast(ch, NextPayload))
    /\ [][\A ch \in StrChannels :
            Broadcast(ch, NextPayload) =>
                /\ lastCall' = [op |-> "broadcast", channel |-> ch, outcome |-> "returned"]
                /\ delivered' = delivered
                /\ Len(threads') = Len(threads) + 1
                /\ SubSeq(threads', 1, Len(threads)) = threads
                /\ threads'[Len(threads')].pc = "start"]_vars

\* broadcast has returned twice: the first batch is stuck inside a receiver, the
\* second has not invoked any of the receivers of its channel yet
C5_Witness ==
    /\ Len(threads) = 2
    /\ lastCall = [op |-> "broadcast", channel |-> threads[2].channel, outcome |-> "returned"]
    /\ threads[1].pc = "receive"
    /\ threads[2].pc = "start"
    /\ Lookup(threads[2].channel) # <<>>
    /\ ByThread(2) = <<>>

\* the subclasses of the snapshot that the scan has gone past
Passed == 1..(scanIdx - 1)

\* C10: the scan skips a subclass whose channel is None with a warning and goes on:
\* every subclass it has gone past is either warned about and in no channel's list
\* (channel None) or instantiated once in its channel's list in scan order (any other
\* channel), and it ends only past the last subclass of its snapshot.
C10_NullChannelSkipped ==
    /\ scanPc = "done" => scanIdx = Len(subs) + 1
    /\ scanPc # "pending" =>
          /\ warned = {i \in Passed : subs[i] = NoChannel}
          /\ NoChannel \notin DOMAIN receivers
          /\ \A ch \in StrChannels :
                /\ Range(Lookup(ch)) = {i \in Passed : subs[i] = ch}
                /\ \A i, j \in DOMAIN Lookup(ch) : i < j => Lookup(ch)[i] < Lookup(ch)[j]

\* the scan is over: it skipped the first subclass and registered the one after it
C10_Witness ==
    /\ scanPc = "done"
    /\ subs = <<NoChannel, StrChannel("ping")>>
    /\ warned = {1}
    /\ receivers = [c \in {StrChannel("ping")} |-> <<2>>]

\* the names declared by the call that lastCall records
DeclaredBy(call, fns) == IF call.op = "requires" THEN fns[call.fn].pkgs ELSE call.pkgs

\* C6: declaring names that are all in the module's set already, through the requires
\* decorator or through the set-requires command, leaves _requires exactly as it was
\* (the declaring steps are those that end with such a last call and leave the
\* packages directory alone).
C6_DeclareIdempotent ==
    [][(/\ lastCall'.op \in {"requires", "set_requires"}
        /\ installed' = installed
        /\ DeclaredBy(lastCall', wrapped') # <<>>
        /\ Range(DeclaredBy(lastCall', wrapped')) \subseteq Get(requiresTab, lastCall'.module, {}))
            => requiresTab' = requiresTab]_vars

\* set-requires has just declared again names that a decorator had declared for the
\* module, the only module of the table
C6_Witness ==
    /\ lastCall.op = "set_requires"
    /\ lastCall.pkgs # <<>>
    /\ DOMAIN requiresTab = {lastCall.module}
    /\ \E i \in DOMAIN wrapped :
          /\ Range(lastCall.pkgs) \subseteq Range(wrapped[i].pkgs)
          /\ requiresTab[lastCall.module] = Range(wrapped[i].pkgs)

\* C7: get_missing_pkgs returns, without repetition, exactly the declared packages of
\* the module that are not in the listing of the packages directory, and the empty
\* list for a module that declared nothing (the query is the only step that changes
\* the last call into a missing query).
C7_MissingIsDifference ==
    [][(lastCall'.op = "missing" /\ lastCall' # lastCall) =>
          /\ Range(lastCall'.result) = Get(requiresTab, lastCall'.module, {}) \ installed
          /\ Len(lastCall'.result) =
                Cardinality(Get(requiresTab, lastCall'.module, {}) \ installed)]_vars

\* declare(M, "Foo", "Bar"); missing(M, {"Foo"}) has returned ["Bar"]
C7_Witness ==
    /\ lastCall.op = "missing"
    /\ lastCall.module \in DOMAIN requiresTab
    /\ requiresTab[lastCall.module] = {"Foo", "Bar"}
    /\ lastCall.listed = {"Foo"}
    /\ lastCall.result = <<"Bar">>

\* C8 (as claimed): a wrapped function runs fn only if every one of its packages
\* exists, and otherwise returns None without running it.
C8_RunsOnlyIfAllPresent ==
    lastCall.op = "call" =>
        /\ lastCall.ran => Range(wrapped[lastCall.fn].pkgs) \subseteq lastCall.listed
        /\ ~lastCall.ran => lastCall.result = "None"

C11_NotSequenced ==
    \A t \in DOMAIN threads :
        /\ threads[t].pc = "start" => ENABLED ThreadLookup(t)
        /\ threads[t].pc = "iter" => ENABLED ThreadFirst(t)
        /\ threads[t].pc = "receive" => ENABLED ReceiveReturn(t)

\* two broadcasts on a channel with two receivers: the first receiver got the payload
\* of the second broadcast before that of the first, and the invocations of the two
\* batches alternate
C11_Witness ==
    /\ Len(threads) = 2
    /\ threads[1].channel = threads[2].channel
    /\ Len(Lookup(threads[1].channel)) = 2
    /\ threads[1].data # threads[2].data
    /\ ReceiversOf(delivered) = <<1, 1, 2, 2>>
    /\ [i \in DOMAIN delivered |-> delivered[i].thread] = <<2, 1, 2, 1>>
    /\ [i \in DOMAIN delivered |-> delivered[i].data] =
          <<threads[2].data, threads[1].data, threads[2].data, threads[1].data>>

\* C13: the registry is filled by one scan and stable afterwards: the scan, once begun,
\* works on the subclasses it read and never begins again; once it is over no step
\* changes _receivers; and the receivers ever called are instances of the subclasses the
\* scan read, so none of a type defined after the scan.
C13_ScanOnceThenStable ==
    [][/\ scanPc = "running" => scanPc' \in {"running", "done"} /\ subs' = subs
       /\ scanPc = "done" => scanPc' = "done" /\ subs' = subs /\ receivers' = receivers
       /\ \A i \in DOMAIN delivered' : delivered'[i].receiver \in DOMAIN subs']_vars

\* a second subclass was defined on a channel after the scan had registered the first,
\* and a batch on that channel is over: it called the first only
C13_Witness ==
    /\ scanPc = "done"
    /\ Len(subs) = 1
    /\ Len(subclasses) = 2
    /\ subclasses[2] = subclasses[1]
    /\ Len(threads) = 1
    /\ threads[1].channel = subclasses[2]
    /\ threads[1].pc = "done"
    /\ ReceiversOf(delivered) = <<1>>

\* C14: a receiver that raises ends its batch there and nothing else: the step by which
\* a thread fails is taken inside a receive call, when the batch has called exactly the
\* receivers of its list up to the failing one; it changes no other thread, no
\* invocation and not what the caller of broadcast got; and a failed thread never moves
\* or calls a receiver again.
C14_FailureEndsBatch ==
    [][\A t \in DOMAIN threads :
          /\ threads[t].pc = "failed" =>
                /\ threads'[t] = threads[t]
                /\ \A i \in DOMAIN delivered' :
                      i > Len(delivered) => delivered'[i].thread # t
          /\ threads[t].pc # "failed" /\ threads'[t].pc = "failed" =>
                /\ threads[t].pc = "receive"
                /\ ReceiversOf(ByThread(t)) = SubSeq(threads[t].list, 1, threads[t].idx)
                /\ threads[t].list = Lookup(threads[t].channel)
                /\ delivered' = delivered
                /\ lastCall' = lastCall
                /\ \A u \in DOMAIN threads \ {t} : threads'[u] = threads[u]]_vars

\* two batches on a channel with two receivers: the first receiver failed in the first
\* batch, which never called the second one, and the second batch called both
C14_Witness ==
    /\ Len(threads) = 2
    /\ threads[1].channel = threads[2].channel
    /\ Len(Lookup(threads[1].channel)) = 2
    /\ threads[1].pc = "failed"
    /\ threads[2].pc = "done"
    /\ ReceiversOf(ByThread(1)) = <<1>>
    /\ ReceiversOf(ByThread(2)) = <<1, 2>>
    /\ delivered[Len(delivered)].thread = 2
    /\ lastCall.outcome = "returned"

\* C15: a batch goes through the list its thread read from _receivers when it began to
\* iterate: that list is the channel's list of that moment (whatever it was when
\* broadcast was called), it stays the thread's list while the batch is in progress
\* whatever is registered meanwhile, and a batch that ends normally has called exactly
\* the receivers of that list, in order and once each.
C15_SnapshotAtStart ==
    [][\A t \in DOMAIN threads :
          /\ threads[t].pc = "start" /\ threads'[t].pc # "start" =>
                /\ threads'[t].pc = "iter"
                /\ threads'[t].list = Get(receivers, threads[t].channel, <<>>)
          /\ threads[t].pc \in {"iter", "receive"} /\ threads'[t].pc \in {"iter", "receive"} =>
                /\ threads'[t].list = threads[t].list
                /\ IsPrefix(ReceiversOf(ByThread(t)), threads[t].list)
          /\ threads[t].pc \in {"iter", "receive"} /\ threads'[t].pc = "done" =>
                /\ ReceiversOf(ByThread(t)) = threads[t].list
                /\ delivered' = delivered]_vars

\* a batch is calling the only receiver of the list it read; the scan has since
\* registered a second receiver on the channel
C15_Witness ==
    /\ Len(threads) = 1
    /\ threads[1].pc = "receive"
    /\ threads[1].list = <<1>>
    /\ Lookup(threads[1].channel) = <<1, 2>>
    /\ ReceiversOf(delivered) = <<1>>

\* C16: the decorator declares when the function is defined, the wrapped function never
\* declares: the step that defines a wrapped function leaves every name given to the
\* decorator in the set of the function's module, whatever the packages directory
\* holds, and a call of a wrapped function leaves _requires as it was.
C16_DeclaredAtDefinition ==
    [][/\ Len(wrapped') > Len(wrapped) =>
             /\ lastCall'.op = "requires"
             /\ lastCall'.fn = Len(wrapped')
             /\ lastCall'.module \in DOMAIN requiresTab'
             /\ Range(wrapped'[Len(wrapped')].pkgs) \subseteq requiresTab'[lastCall'.module]
       /\ lastCall'.op = "call" /\ lastCall' # lastCall => requiresTab' = requiresTab]_vars

\* a function was wrapped with a package that is not installed and has not been called:
\* the package is in its module's set
C16_Witness ==
    /\ lastCall.op = "requires"
    /\ Range(wrapped[lastCall.fn].pkgs) \cap installed = {}
    /\ Range(wrapped[lastCall.fn].pkgs) \subseteq requiresTab[lastCall.module]

\* C12: _requires only grows: whatever the step (a decorator, the set-requires command,
\* a call of a wrapped function, a query for the missing packages, the install-requires
\* command and its panel, a broadcast and the steps of its thread), every module that
\* had a set still has one, with every name it held.
C12_TableOnlyGrows ==
    [][\A m \in DOMAIN requiresTab :
          /\ m \in DOMAIN requiresTab'
          /\ requiresTab[m] \subseteq requiresTab'[m]]_vars

\* both modules have declared, one of them both packages, a function was wrapped, a
\* batch has called a receiver and ended, and the panel of the install-requires command
\* has just been answered
C12_Witness ==
    /\ DOMAIN requiresTab = Modules
    /\ \E m \in Modules : requiresTab[m] = Pkgs
    /\ wrapped # <<>>
    /\ Len(threads) = 1
    /\ threads[1].pc = "done"
    /\ delivered # <<>>
    /\ lastCall.op = "on_done"
    /\ lastCall.started # <<>>

\* C17: the install-requires command offers the missing packages and installs what is
\* picked: its run shows a panel exactly when the module has declared a package that
\* is not in the packages directory; the options are then those packages, once each,
\* behind an "All Packages" entry when they are more than one; and the answer to the
\* panel starts no installer when it is dismissed, one for each package offered when
\* "All Packages" is picked, and only that of the package picked otherwise.
C17_InstallPanel ==
    /\ lastCall.op = "install_run" =>
          LET missing == Get(requiresTab, lastCall.module, {}) \ lastCall.listed
          IN  /\ lastCall.panel <=> missing # {}
              /\ ~lastCall.panel => lastCall.options = <<>>
              /\ lastCall.panel =>
                    IF Cardinality(missing) > 1
                    THEN /\ Head(lastCall.options) = AllPackages
                         /\ Tail(lastCall.options) \in Orderings(missing)
                    ELSE lastCall.options \in Orderings(missing)
    /\ lastCall.op = "on_done" =>
          LET o == lastCall.options
              offered == IF Len(o) > 1 THEN Tail(o) ELSE o
          IN  /\ lastCall.picked = -1 => lastCall.started = <<>>
              /\ lastCall.picked >= 0 /\ o[lastCall.picked + 1] = AllPackages =>
                    lastCall.started = offered
              /\ lastCall.picked >= 0 /\ o[lastCall.picked + 1] # AllPackages =>
                    lastCall.started = <<o[lastCall.picked + 1]>>

\* two packages were missing and "All Packages" was picked: two installers were started
C17_Witness ==
    /\ lastCall.op = "on_done"
    /\ Len(lastCall.options) = 3
    /\ lastCall.picked = 0
    /\ Range(lastCall.started) = Pkgs
    /\ Len(lastCall.started) = 2

\* C18: a broadcast is not kept for receivers registered later: a thread that looks its
\* channel up while nothing is registered on it gets the empty list and has called no
\* receiver; with the empty list it can only end, calling none; and a thread that has
\* ended never moves again and no receiver is called for it, whatever is registered
\* afterwards.
C18_NotQueued ==
    [][\A t \in DOMAIN threads :
          LET quiet == \A i \in DOMAIN delivered' :
                           i > Len(delivered) => delivered'[i].thread # t
          IN  /\ /\ threads[t].pc = "start"
                 /\ threads'[t].pc # "start"
                 /\ threads[t].channel \notin DOMAIN receivers
                 => /\ threads'[t].pc = "iter"
                    /\ threads'[t].list = <<>>
                    /\ ByThread(t) = <<>>
                    /\ quiet
              /\ threads[t].pc = "iter" /\ threads[t].list = <<>> =>
                    /\ threads'[t] \in {threads[t], [threads[t] EXCEPT !.pc = "done"]}
                    /\ quiet
              /\ threads[t].pc = "done" => threads'[t] = threads[t] /\ quiet]_vars

\* a batch ended without calling anyone, its channel having no receiver yet; the scan
\* has since registered a receiver on that channel
C18_Witness ==
    /\ Len(threads) = 1
    /\ threads[1].pc = "done"
    /\ delivered = <<>>
    /\ scanPc = "done"
    /\ Lookup(threads[1].channel) # <<>>

\* C19: what the operations leave alone: a call of broadcast and every step of its
\* thread, and a query for the missing packages, change neither _receivers (a channel
\* without receivers gets no key) nor _requires; a declaration, by the decorator or by
\* the set-requires command, changes neither _receivers nor the set of any module but
\* the one it names.
C19_Frames ==
    [][/\ \/ threads' # threads
          \/ lastCall'.op \in {"broadcast", "missing"} /\ lastCall' # lastCall
          => receivers' = receivers /\ requiresTab' = requiresTab
       /\ lastCall'.op \in {"requires", "set_requires"} /\ lastCall' # lastCall =>
             /\ receivers' = receivers
             /\ DOMAIN requiresTab' = DOMAIN requiresTab \cup {lastCall'.module}
             /\ \A m \in DOMAIN requiresTab \ {lastCall'.module} :
                   requiresTab'[m] = requiresTab[m]]_vars

\* both modules have declared, a batch on a channel nobody listens to has ended, and the
\* missing packages were asked for last: the channel has no key in _receivers
C19_Witness ==
    /\ DOMAIN requiresTab = Modules
    /\ Len(threads) = 1
    /\ threads[1].pc = "done"
    /\ threads[1].channel \notin DOMAIN receivers
    /\ receivers # EmptyDict
    /\ lastCall.op = "missing"
====
